---- MODULE Spec2Model ----
(***************************************************************************)
(* p3loops: edges on the boundary of a square whose North side is          *)
(* identified with East and whose South side is identified with West.      *)
(*                                                                         *)
(* The library is a set of pure functions.  The model is a caller that     *)
(* invokes one library function at a time on inputs drawn from bounded     *)
(* sets; the state is the last call: the function called, its arguments    *)
(* and its outcome (a returned value or a raised ValueError), kept as the  *)
(* triple call = <<fn, args, ret>>.  A call is made when no call is        *)
(* pending (fn = "none"); Return drops the outcome.                        *)
(*                                                                         *)
(* Positions are Python floats in the source; the model uses the integer   *)
(* positions of a grid that contains both corner values 0 and 100.         *)
(* A Python str is modelled as a sequence of one-character strings.        *)
(***************************************************************************)
EXTENDS Integers, Sequences, FiniteSets, TLC

VARIABLE call

vars == <<call>>

fn == call[1]

args == call[2]

ret == call[3]

(***************************************************************************)
(* Bounds                                                                  *)
(***************************************************************************)
NumInner == 2

MaxPad == 1

MaxPathPoints == 4

MaxEdges == 3

(***************************************************************************)
(* Outcomes of a call                                                      *)
(***************************************************************************)
Ok(v) == [raised |-> FALSE, value |-> v]

ValueError == [raised |-> TRUE, value |-> "ValueError"]

NoOutcome == [pending |-> TRUE]

(***************************************************************************)
(* class Side                                                              *)
(***************************************************************************)
Side == {"NORTH", "EAST", "SOUTH", "WEST"}

(***************************************************************************)
(* class Point                                                             *)
(***************************************************************************)
Point_post_init_raises_strict(position) == ~(0 < position /\ position < 100)

Point_post_init_raises(position) == ~(0 <= position /\ position <= 100)

Point(side, position) ==
  IF Point_post_init_raises(position)
  THEN ValueError
  ELSE Ok([side |-> side, position |-> position])

canonicalize_south_to_east(self) ==
  IF self.side = "NORTH" THEN [side |-> "EAST", position |-> self.position]
  ELSE IF self.side = "SOUTH" THEN [side |-> "EAST", position |-> self.position]
  ELSE self

canonicalize(self) ==
  IF self.side = "NORTH" THEN [side |-> "EAST", position |-> self.position]
  ELSE IF self.side = "SOUTH" THEN [side |-> "WEST", position |-> self.position]
  ELSE self

is_equivalent(self, other) == canonicalize(self) = canonicalize(other)

(***************************************************************************)
(* class Edge                                                              *)
(***************************************************************************)
Edge(start, end) == [start |-> start, end |-> end]

connects_to_exact(self, other) == self.end = other.start

connects_to(self, other) == is_equivalent(self.end, other.start)

(***************************************************************************)
(* is_valid_path: the for loop over range(len(edges) - 1), 1-based here    *)
(***************************************************************************)
RECURSIVE is_valid_path_loop(_, _)
is_valid_path_loop(edges, i) ==
  IF i > Len(edges) - 1 THEN TRUE
  ELSE IF ~connects_to(edges[i], edges[i + 1]) THEN FALSE
  ELSE is_valid_path_loop(edges, i + 1)

is_valid_path(edges) ==
  IF Len(edges) = 0 THEN TRUE ELSE is_valid_path_loop(edges, 1)

(***************************************************************************)
(* Boundary parameterization                                               *)
(***************************************************************************)
_get_boundary_coordinate_west_unreflected(point) ==
  IF point.side = "NORTH" THEN point.position
  ELSE IF point.side = "EAST" THEN 100 + (100 - point.position)
  ELSE IF point.side = "SOUTH" THEN 200 + point.position
  ELSE 300 + point.position

_get_boundary_coordinate_south_reflected(point) ==
  IF point.side = "NORTH" THEN point.position
  ELSE IF point.side = "EAST" THEN 100 + (100 - point.position)
  ELSE IF point.side = "SOUTH" THEN 200 + (100 - point.position)
  ELSE 300 + (100 - point.position)

_get_boundary_coordinate_east_unreflected(point) ==
  IF point.side = "NORTH" THEN point.position
  ELSE IF point.side = "EAST" THEN 100 + point.position
  ELSE IF point.side = "SOUTH" THEN 200 + point.position
  ELSE 300 + (100 - point.position)

_get_boundary_coordinate(point) ==
  IF point.side = "NORTH" THEN point.position
  ELSE IF point.side = "EAST" THEN 100 + (100 - point.position)
  ELSE IF point.side = "SOUTH" THEN 200 + point.position
  ELSE 300 + (100 - point.position)

(***************************************************************************)
(* Crossing predicate                                                      *)
(***************************************************************************)
point_in_arc_wrap_conjunction(point, arc_start, arc_end) ==
  LET p == point % 400
      s == arc_start % 400
      e == arc_end % 400
  IN  IF s = e THEN FALSE
      ELSE IF s < e THEN s < p /\ p < e
      ELSE p > s /\ p < e

point_in_arc(point, arc_start, arc_end) ==
  LET p == point % 400
      s == arc_start % 400
      e == arc_end % 400
  IN  IF s = e THEN FALSE
      ELSE IF s < e THEN s < p /\ p < e
      ELSE p > s \/ p < e

_segments_intersect(a1, a2, b1, b2) ==
  LET na1 == a1 % 400
      na2 == a2 % 400
      nb1 == b1 % 400
      nb2 == b2 % 400
      b1_in_a == point_in_arc(nb1, na1, na2)
      b2_in_a == point_in_arc(nb2, na1, na2)
      a1_in_b == point_in_arc(na1, nb1, nb2)
      a2_in_b == point_in_arc(na2, nb1, nb2)
  IN  (b1_in_a # b2_in_a) /\ (a1_in_b # a2_in_b)

edges_cross_three_checks(edge1, edge2) ==
  IF \/ is_equivalent(edge1.start, edge2.start)
     \/ is_equivalent(edge1.end, edge2.start)
     \/ is_equivalent(edge1.end, edge2.end)
  THEN FALSE
  ELSE _segments_intersect(_get_boundary_coordinate(edge1.start),
                           _get_boundary_coordinate(edge1.end),
                           _get_boundary_coordinate(edge2.start),
                           _get_boundary_coordinate(edge2.end))

edges_cross_without_end_start(edge1, edge2) ==
  IF \/ is_equivalent(edge1.start, edge2.start)
     \/ is_equivalent(edge1.start, edge2.end)
     \/ is_equivalent(edge1.end, edge2.end)
  THEN FALSE
  ELSE _segments_intersect(_get_boundary_coordinate(edge1.start),
                           _get_boundary_coordinate(edge1.end),
                           _get_boundary_coordinate(edge2.start),
                           _get_boundary_coordinate(edge2.end))

edges_cross(edge1, edge2) ==
  IF \/ is_equivalent(edge1.start, edge2.start)
     \/ is_equivalent(edge1.start, edge2.end)
     \/ is_equivalent(edge1.end, edge2.start)
     \/ is_equivalent(edge1.end, edge2.end)
  THEN FALSE
  ELSE _segments_intersect(_get_boundary_coordinate(edge1.start),
                           _get_boundary_coordinate(edge1.end),
                           _get_boundary_coordinate(edge2.start),
                           _get_boundary_coordinate(edge2.end))

(***************************************************************************)
(* is_noncrossing: the nested for loops over i and j > i, 1-based here     *)
(***************************************************************************)
RECURSIVE is_noncrossing_loop(_, _, _)
is_noncrossing_loop(edges, i, j) ==
  IF i > Len(edges) THEN TRUE
  ELSE IF j > Len(edges) THEN is_noncrossing_loop(edges, i + 1, i + 2)
  ELSE IF edges_cross(edges[i], edges[j]) THEN FALSE
  ELSE is_noncrossing_loop(edges, i, j + 1)

is_noncrossing_adjacent_only(edges) ==
  \A i \in 1..(Len(edges) - 1) : ~edges_cross(edges[i], edges[i + 1])

is_noncrossing(edges) == is_noncrossing_loop(edges, 1, 2)

is_noncrossing_path_ignoring_validity(edges) == is_noncrossing(edges)

is_noncrossing_path(edges) == is_valid_path(edges) /\ is_noncrossing(edges)

(***************************************************************************)
(* str.lower and str.strip on a sequence of characters                     *)
(***************************************************************************)
LowerLetters ==
  <<"a", "b", "c", "d", "e", "f", "g", "h", "i", "j", "k", "l", "m",
    "n", "o", "p", "q", "r", "s", "t", "u", "v", "w", "x", "y", "z">>

UpperLetters ==
  <<"A", "B", "C", "D", "E", "F", "G", "H", "I", "J", "K", "L", "M",
    "N", "O", "P", "Q", "R", "S", "T", "U", "V", "W", "X", "Y", "Z">>

Whitespace == {" ", "\t"}

char_lower(c) ==
  IF \E k \in 1..Len(UpperLetters) : UpperLetters[k] = c
  THEN LowerLetters[CHOOSE k \in 1..Len(UpperLetters) : UpperLetters[k] = c]
  ELSE c

str_lower(s) == [k \in 1..Len(s) |-> char_lower(s[k])]

RECURSIVE str_lstrip(_)
str_lstrip(s) ==
  IF Len(s) > 0 /\ Head(s) \in Whitespace THEN str_lstrip(Tail(s)) ELSE s

RECURSIVE str_rstrip(_)
str_rstrip(s) ==
  IF Len(s) > 0 /\ s[Len(s)] \in Whitespace
  THEN str_rstrip(SubSeq(s, 1, Len(s) - 1))
  ELSE s

str_strip_left_only(s) == str_lstrip(s)

str_strip(s) == str_rstrip(str_lstrip(s))

(***************************************************************************)
(* Convenience constructors                                                *)
(***************************************************************************)
parse_side(s0) ==
  LET s == str_strip(str_lower(s0))
  IN  IF s \in {<<"n">>, <<"n", "o", "r", "t", "h">>} THEN Ok("NORTH")
      ELSE IF s \in {<<"e">>, <<"e", "a", "s", "t">>} THEN Ok("EAST")
      ELSE IF s \in {<<"s">>, <<"s", "o", "u", "t", "h">>} THEN Ok("SOUTH")
      ELSE IF s \in {<<"w">>, <<"w", "e", "s", "t">>} THEN Ok("WEST")
      ELSE ValueError

make_point(side, position) ==
  LET parsed == parse_side(side)
  IN  IF parsed.raised THEN ValueError ELSE Point(parsed.value, position)

make_edge(start_side, start_pos, end_side, end_pos) ==
  LET start == make_point(start_side, start_pos)
  IN  IF start.raised THEN ValueError
      ELSE LET end == make_point(end_side, end_pos)
           IN  IF end.raised THEN ValueError
               ELSE Ok(Edge(start.value, end.value))

(***************************************************************************)
(* Inputs of the calls                                                     *)
(***************************************************************************)
Positions == {0, 100} \cup {40 * k - 30 : k \in 1..NumInner}

PositionInputs == Positions \cup {-1, 101}

Points == [side : Side, position : Positions]

Edges == [start : Points, end : Points]

Coordinates == {_get_boundary_coordinate(p) : p \in Points}

PathPointOrder ==
  << [side |-> "NORTH", position |-> 10],
     [side |-> "EAST", position |-> 10],
     [side |-> "NORTH", position |-> 50],
     [side |-> "SOUTH", position |-> 50],
     [side |-> "WEST", position |-> 50],
     [side |-> "SOUTH", position |-> 10],
     [side |-> "WEST", position |-> 10],
     [side |-> "EAST", position |-> 50] >>

PathPoints == {PathPointOrder[k] : k \in 1..MaxPathPoints}

PathEdges == [start : PathPoints, end : PathPoints]

PathSeqs == UNION {[1..n -> PathEdges] : n \in 0..MaxEdges}

SideLiterals ==
  { <<"n">>, <<"n", "o", "r", "t", "h">>,
    <<"e">>, <<"e", "a", "s", "t">>,
    <<"s">>, <<"s", "o", "u", "t", "h">>,
    <<"w">>, <<"w", "e", "s", "t">> }

OtherWords ==
  { <<>>, <<"x">>, <<"n", "o">>, <<"n", "w">>, <<"n", " ", "e">>,
    <<"e", "s", "t">>, <<"i", "n", "v", "a", "l", "i", "d">> }

char_upper(c) ==
  IF \E k \in 1..Len(LowerLetters) : LowerLetters[k] = c
  THEN UpperLetters[CHOOSE k \in 1..Len(LowerLetters) : LowerLetters[k] = c]
  ELSE c

CaseForms(w) ==
  { [k \in 1..Len(w) |-> IF k \in U THEN char_upper(w[k]) ELSE w[k]] :
      U \in SUBSET (1..Len(w)) }

Pads == UNION {[1..n -> Whitespace] : n \in 0..MaxPad}

SideStrings ==
  { l \o c \o r :
      l \in Pads, r \in Pads,
      c \in UNION {CaseForms(w) : w \in SideLiterals \cup OtherWords} }

ShortSideStrings == {s \in SideStrings : Len(s) <= 2}

CharSideStrings == {s \in SideStrings : Len(s) <= 1}

Init == call = <<"none", <<>>, NoOutcome>>

CallPoint ==
  /\ fn = "none"
  /\ \E side \in Side, position \in PositionInputs :
       call' = <<"Point", <<side, position>>,
                 Point(side, position)>>

CallCanonicalize ==
  /\ fn = "none"
  /\ \E p \in Points :
       call' = <<"canonicalize", <<p>>,
                 Ok(canonicalize(p))>>

CallIsEquivalent ==
  /\ fn = "none"
  /\ \E a \in Points, b \in Points :
       call' = <<"is_equivalent", <<a, b>>,
                 Ok(is_equivalent(a, b))>>

CallGetBoundaryCoordinate ==
  /\ fn = "none"
  /\ \E p \in Points :
       call' = <<"_get_boundary_coordinate", <<p>>,
                 Ok(_get_boundary_coordinate(p))>>

CallEdgesCross ==
  /\ fn = "none"
  /\ \E e1 \in Edges, e2 \in Edges :
       call' = <<"edges_cross", <<e1, e2>>,
                 Ok(edges_cross(e1, e2))>>

CallConnectsTo ==
  /\ fn = "none"
  /\ \E e1 \in PathEdges, e2 \in PathEdges :
       call' = <<"connects_to", <<e1, e2>>,
                 Ok(connects_to(e1, e2))>>

CallIsValidPath ==
  /\ fn = "none"
  /\ \E edges \in PathSeqs :
       call' = <<"is_valid_path", <<edges>>,
                 Ok(is_valid_path(edges))>>

CallSegmentsIntersect ==
  /\ fn = "none"
  /\ \E a1 \in Coordinates, a2 \in Coordinates,
        b1 \in Coordinates, b2 \in Coordinates :
       call' = <<"_segments_intersect", <<a1, a2, b1, b2>>,
                 Ok(_segments_intersect(a1, a2, b1, b2))>>

CallIsNoncrossing ==
  /\ fn = "none"
  /\ \E edges \in PathSeqs :
       call' = <<"is_noncrossing", <<edges>>,
                 Ok(is_noncrossing(edges))>>

CallIsNoncrossingPath ==
  /\ fn = "none"
  /\ \E edges \in PathSeqs :
       call' = <<"is_noncrossing_path", <<edges>>,
                 Ok(is_noncrossing_path(edges))>>

CallParseSide ==
  /\ fn = "none"
  /\ \E s \in SideStrings :
       call' = <<"parse_side", <<s>>,
                 parse_side(s)>>

CallMakePoint ==
  /\ fn = "none"
  /\ \E side \in ShortSideStrings, position \in PositionInputs :
       call' = <<"make_point", <<side, position>>,
                 make_point(side, position)>>

CallMakeEdge ==
  /\ fn = "none"
  /\ \E start_side \in CharSideStrings, start_pos \in PositionInputs,
        end_side \in CharSideStrings, end_pos \in PositionInputs :
       call' = <<"make_edge", <<start_side, start_pos, end_side, end_pos>>,
                 make_edge(start_side, start_pos, end_side, end_pos)>>

Return ==
  /\ fn # "none"
  /\ call' = <<"none", <<>>, NoOutcome>>

Next ==
  \/ Return
  \/ CallPoint
  \/ CallCanonicalize
  \/ CallIsEquivalent
  \/ CallGetBoundaryCoordinate
  \/ CallEdgesCross
  \/ CallConnectsTo
  \/ CallIsValidPath
  \/ CallSegmentsIntersect
  \/ CallIsNoncrossing
  \/ CallIsNoncrossingPath
  \/ CallParseSide
  \/ CallMakePoint
  \/ CallMakeEdge

Spec == Init /\ [][Next]_vars

(***************************************************************************)
(* Vocabulary of the properties, stated independently of the functions     *)
(***************************************************************************)
GlueClass(side) == IF side \in {"NORTH", "EAST"} THEN "NE" ELSE "SW"

Identified(p, q) ==
  GlueClass(p.side) = GlueClass(q.side) /\ p.position = q.position

SharesEndpoint(e1, e2) ==
  \E p \in {e1.start, e1.end}, q \in {e2.start, e2.end} : Identified(p, q)

CircleCoordinate(p) ==
  (CASE p.side = "NORTH" -> p.position
     [] p.side = "EAST" -> 200 - p.position
     [] p.side = "SOUTH" -> 200 + p.position
     [] p.side = "WEST" -> 400 - p.position) % 400

StrictlyBetween(x, u, v) ==
  (u < x /\ x < v) \/ (v < x /\ x < u)

ProperlyCross(e1, e2) ==
  LET a1 == CircleCoordinate(e1.start)
      a2 == CircleCoordinate(e1.end)
      b1 == CircleCoordinate(e2.start)
      b2 == CircleCoordinate(e2.end)
  IN  /\ Cardinality({a1, a2, b1, b2}) = 4
      /\ StrictlyBetween(b1, a1, a2) # StrictlyBetween(b2, a1, a2)

ChainOk(edges) ==
  \A i \in 1..(Len(edges) - 1) : Identified(edges[i].end, edges[i + 1].start)

NoPairCrosses(edges) ==
  \A i \in 1..Len(edges), j \in 1..Len(edges) :
    i < j => ~edges_cross(edges[i], edges[j])

OutOfRange(position) == position < 0 \/ position > 100

LiteralSide(w) ==
  CASE w \in {<<"n">>, <<"n", "o", "r", "t", "h">>} -> "NORTH"
    [] w \in {<<"e">>, <<"e", "a", "s", "t">>} -> "EAST"
    [] w \in {<<"s">>, <<"s", "o", "u", "t", "h">>} -> "SOUTH"
    [] w \in {<<"w">>, <<"w", "e", "s", "t">>} -> "WEST"

SpelledIn(s, w) ==
  /\ Len(s) = Len(w)
  /\ \A k \in 1..Len(w) : s[k] \in {w[k], char_upper(w[k])}

SpelledSides(s) ==
  {LiteralSide(w) : w \in {v \in SideLiterals : SpelledIn(s, v)}}

PaddedSides(s) ==
  UNION { SpelledSides(SubSeq(s, i, j)) :
            <<i, j>> \in { ij \in (1..Len(s)) \X (1..Len(s)) :
                             /\ ij[1] <= ij[2]
                             /\ \A k \in 1..(ij[1] - 1) : s[k] \in Whitespace
                             /\ \A k \in (ij[2] + 1)..Len(s) : s[k] \in Whitespace } }

(***************************************************************************)
(* C1: edges_cross returns false whenever an endpoint of the first edge is *)
(* identified (North=East, South=West, same position) with an endpoint of  *)
(* the second, whatever the four boundary coordinates are.                 *)
(***************************************************************************)
C1_SharedEndpointNeverCross ==
  (fn = "edges_cross" /\ SharesEndpoint(args[1], args[2]))
    => (~ret.raised /\ ret.value = FALSE)

C1_Witness ==
  /\ fn = "edges_cross"
  /\ SharesEndpoint(args[1], args[2])
  /\ ProperlyCross(args[1], args[2])
  /\ ret.value = FALSE

(***************************************************************************)
(* C2: is_valid_path is true exactly when every consecutive pair chains    *)
(* (end of edges[i] identified with start of edges[i+1]); hence true for   *)
(* the empty and the one-edge sequence, and nothing else is checked.       *)
(***************************************************************************)
C2_ValidPathIffChain ==
  fn = "is_valid_path"
    => /\ ~ret.raised
       /\ ret.value = ChainOk(args[1])
       /\ Len(args[1]) <= 1 => ret.value = TRUE

C2_Witness ==
  /\ fn = "is_valid_path"
  /\ Len(args[1]) >= 3
  /\ ret.value = TRUE
  /\ ~Identified(args[1][Len(args[1])].end, args[1][1].start)
  /\ \E i \in 1..(Len(args[1]) - 1) : args[1][i].end # args[1][i + 1].start

(***************************************************************************)
(* C3: is_noncrossing_path(edges) equals is_valid_path(edges) and          *)
(* is_noncrossing(edges): false whenever the chain is broken, crossing or  *)
(* not, and false for a valid path that contains a crossing pair.          *)
(***************************************************************************)
C3_NoncrossingPathIsConjunction ==
  fn = "is_noncrossing_path"
    => /\ ~ret.raised
       /\ ret.value = (is_valid_path(args[1]) /\ is_noncrossing(args[1]))
       /\ ret.value = (ChainOk(args[1]) /\ NoPairCrosses(args[1]))
       /\ ~ChainOk(args[1]) => ret.value = FALSE

C3_Witness ==
  /\ fn = "is_noncrossing_path"
  /\ ChainOk(args[1])
  /\ is_valid_path(args[1]) = TRUE
  /\ ~NoPairCrosses(args[1])
  /\ ret.value = FALSE

(***************************************************************************)
(* C4: is_noncrossing is true exactly when edges_cross is false for every  *)
(* pair of indices i < j, adjacent or not; hence true for the empty and    *)
(* the one-edge sequence.                                                  *)
(***************************************************************************)
C4_NoncrossingIffNoPair ==
  fn = "is_noncrossing"
    => /\ ~ret.raised
       /\ ret.value = NoPairCrosses(args[1])
       /\ Len(args[1]) <= 1 => ret.value = TRUE

C4_Witness ==
  /\ fn = "is_noncrossing"
  /\ Len(args[1]) = 3
  /\ edges_cross(args[1][1], args[1][3])
  /\ ~edges_cross(args[1][1], args[1][2])
  /\ ~edges_cross(args[1][2], args[1][3])
  /\ ret.value = FALSE

(***************************************************************************)
(* C5: edges_cross is true exactly when no endpoints are identified and    *)
(* the chords properly cross: the four coordinates modulo 400 are pairwise *)
(* distinct and exactly one endpoint of the second edge lies strictly      *)
(* between the endpoints of the first.                                     *)
(***************************************************************************)
C5_CrossIffProperCrossing ==
  fn = "edges_cross"
    => ret.value = (~SharesEndpoint(args[1], args[2])
                      /\ ProperlyCross(args[1], args[2]))

(***************************************************************************)
(* C6: constructing a Point raises ValueError exactly when the position is *)
(* outside [0, 100]; make_point and make_edge, given side strings that     *)
(* parse, raise exactly when a position is outside [0, 100].               *)
(***************************************************************************)
C6_PointRaisesIffOutOfRange ==
  /\ fn = "Point"
       => /\ ret.raised = OutOfRange(args[2])
          /\ ~ret.raised => ret.value = [side |-> args[1], position |-> args[2]]
  /\ (fn = "make_point" /\ PaddedSides(args[1]) # {})
       => ret.raised = OutOfRange(args[2])
  /\ (fn = "make_edge" /\ PaddedSides(args[1]) # {} /\ PaddedSides(args[3]) # {})
       => ret.raised = (OutOfRange(args[2]) \/ OutOfRange(args[4]))

C6_Witness ==
  /\ fn = "make_edge"
  /\ PaddedSides(args[1]) # {}
  /\ PaddedSides(args[3]) # {}
  /\ args[2] = 100
  /\ args[4] = 101
  /\ ret.raised

C9_CanonicalizeAndEquivalence ==
  /\ fn = "canonicalize"
       => LET p == args[1].position
              side == args[1].side
          IN  /\ side = "NORTH" => ret.value = [side |-> "EAST", position |-> p]
              /\ side = "SOUTH" => ret.value = [side |-> "WEST", position |-> p]
              /\ side \in {"EAST", "WEST"} => ret.value = args[1]
              /\ canonicalize(ret.value) = ret.value
  /\ fn = "is_equivalent"
       => LET a == args[1]
              b == args[2]
          IN  /\ ret.value = is_equivalent(b, a)
              /\ a = b => ret.value = TRUE
              /\ {a.side, b.side} \in {{"NORTH", "EAST"}, {"SOUTH", "WEST"}}
                   => ret.value = (a.position = b.position)

C9_Witness ==
  /\ fn = "is_equivalent"
  /\ args[1].side = "SOUTH"
  /\ args[2].side = "WEST"
  /\ args[1].position = args[2].position
  /\ ret.value = TRUE

(***************************************************************************)
(* C10 (as stated): parse_side returns the matching Side for the literals  *)
(* n, north, e, east, s, south, w, west in any letter case and raises      *)
(* ValueError on every other string, one padded with whitespace included.  *)
(***************************************************************************)
C10_ParseSideLiteralsOnly ==
  fn = "parse_side"
    => IF SpelledSides(args[1]) # {}
       THEN ~ret.raised /\ SpelledSides(args[1]) = {ret.value}
       ELSE ret.raised

(***************************************************************************)
(* C10 (amended): parse_side returns the matching Side for the literals in *)
(* any letter case, also when surrounded by leading or trailing            *)
(* whitespace, and raises ValueError on every other string.                *)
(***************************************************************************)
C10_ParseSideUpToPadding ==
  fn = "parse_side"
    => IF PaddedSides(args[1]) # {}
       THEN ~ret.raised /\ PaddedSides(args[1]) = {ret.value}
       ELSE ret.raised

C10_Witness ==
  /\ fn = "parse_side"
  /\ Len(args[1]) > 1
  /\ args[1][1] \in Whitespace
  /\ args[1][Len(args[1])] \notin Whitespace
  /\ ~ret.raised
  /\ ret.value = "NORTH"

(***************************************************************************)
(* The two conjuncts of _segments_intersect, each computed with            *)
(* point_in_arc as the function computes them.                             *)
(***************************************************************************)
ExactlyOneOfBInA(a1, a2, b1, b2) ==
  point_in_arc(b1, a1, a2) # point_in_arc(b2, a1, a2)

ExactlyOneOfAInB(a1, a2, b1, b2) ==
  point_in_arc(a1, b1, b2) # point_in_arc(a2, b1, b2)

(***************************************************************************)
(* C11 (as stated): in _segments_intersect, whenever both arcs are         *)
(* non-degenerate (a1 # a2 and b1 # b2 modulo 400), "exactly one of b1, b2 *)
(* is in arc(a1, a2)" holds if and only if "exactly one of a1, a2 is in    *)
(* arc(b1, b2)" holds, also when the arcs have an endpoint coordinate in   *)
(* common.                                                                 *)
(***************************************************************************)
C11_ConjunctsEquivalentNonDegenerate ==
  (/\ fn = "_segments_intersect"
   /\ args[1] % 400 # args[2] % 400
   /\ args[3] % 400 # args[4] % 400)
    => (ExactlyOneOfBInA(args[1], args[2], args[3], args[4])
          = ExactlyOneOfAInB(args[1], args[2], args[3], args[4]))

(***************************************************************************)
(* C11 (amended): whenever the four coordinates are pairwise distinct      *)
(* modulo 400, the two conjuncts of _segments_intersect are equivalent,    *)
(* and the function returns their common value.                            *)
(***************************************************************************)
C11_ConjunctsEquivalentDistinct ==
  (/\ fn = "_segments_intersect"
   /\ Cardinality({args[k] % 400 : k \in 1..4}) = 4)
    => /\ ExactlyOneOfBInA(args[1], args[2], args[3], args[4])
            = ExactlyOneOfAInB(args[1], args[2], args[3], args[4])
       /\ ret.value = ExactlyOneOfBInA(args[1], args[2], args[3], args[4])

C11_Witness ==
  /\ fn = "_segments_intersect"
  /\ Cardinality({args[k] % 400 : k \in 1..4}) = 4
  /\ args[1] % 400 > args[2] % 400
  /\ ExactlyOneOfBInA(args[1], args[2], args[3], args[4])
  /\ ExactlyOneOfAInB(args[1], args[2], args[3], args[4])
  /\ ret.value = TRUE

Degenerate(e) == CircleCoordinate(e.start) = CircleCoordinate(e.end)

(***************************************************************************)
(* C12: an edge whose start and end have the same boundary coordinate      *)
(* modulo 400 (North(0) -> West(0) included) never crosses anything:       *)
(* edges_cross is false with it in either argument position, so whenever   *)
(* is_noncrossing is false some pair of non-degenerate edges crosses.      *)
(***************************************************************************)
C12_DegenerateNeverCrosses ==
  /\ (fn = "edges_cross" /\ (Degenerate(args[1]) \/ Degenerate(args[2])))
       => (~ret.raised /\ ret.value = FALSE)
  /\ (fn = "is_noncrossing" /\ ret.value = FALSE)
       => \E i \in 1..Len(args[1]), j \in 1..Len(args[1]) :
            /\ i < j
            /\ ~Degenerate(args[1][i])
            /\ ~Degenerate(args[1][j])
            /\ edges_cross(args[1][i], args[1][j])

C12_Witness ==
  /\ fn = "edges_cross"
  /\ args[2].start = [side |-> "NORTH", position |-> 0]
  /\ args[2].end = [side |-> "WEST", position |-> 0]
  /\ ~Degenerate(args[1])
  /\ ~SharesEndpoint(args[1], args[2])
  /\ ret.value = FALSE

Reversed(e) == [start |-> e.end, end |-> e.start]

(***************************************************************************)
(* C13: edges_cross does not depend on the direction of either edge:       *)
(* reversing the first edge, or the second, leaves the result unchanged,   *)
(* corner positions 0 and 100 included.                                    *)
(***************************************************************************)
C13_CrossIgnoresDirection ==
  fn = "edges_cross"
    => /\ ret.value = edges_cross(Reversed(args[1]), args[2])
       /\ ret.value = edges_cross(args[1], Reversed(args[2]))

(***************************************************************************)
(* C14: consecutive edges of a valid path never cross: if the end of one   *)
(* edge is identified with the start of the other, edges_cross is false in *)
(* both argument orders; hence for at most two edges is_noncrossing_path   *)
(* equals is_valid_path, and a valid path fails is_noncrossing_path only   *)
(* through a pair of non-adjacent edges.                                   *)
(***************************************************************************)
C14_ConsecutiveEdgesNeverCross ==
  /\ (/\ fn = "edges_cross"
      /\ \/ Identified(args[1].end, args[2].start)
         \/ Identified(args[2].end, args[1].start))
       => (~ret.raised /\ ret.value = FALSE)
  /\ (fn = "connects_to" /\ ret.value = TRUE)
       => /\ ~edges_cross(args[1], args[2])
          /\ ~edges_cross(args[2], args[1])
  /\ (fn = "is_noncrossing_path" /\ Len(args[1]) <= 2)
       => ret.value = is_valid_path(args[1])
  /\ (fn = "is_noncrossing_path" /\ is_valid_path(args[1]) /\ ret.value = FALSE)
       => \E i \in 1..Len(args[1]), j \in 1..Len(args[1]) :
            i + 1 < j /\ edges_cross(args[1][i], args[1][j])

C14_Witness ==
  /\ fn = "edges_cross"
  /\ Identified(args[1].end, args[2].start)
  /\ args[1].end # args[2].start
  /\ ProperlyCross(args[1], args[2])
  /\ ret.value = FALSE

====
